---- MODULE Spec2Model ----
(***************************************************************************)
(* A model of src/app.py: a webhook service that seals a validated full    *)
(* name into a Fernet token rendered as a QR code (issue), and that        *)
(* decodes, decrypts and consumes such a token exactly once (redeem),      *)
(* recording consumed tokens in the used_tokens table.                     *)
(*                                                                         *)
(* Text is a sequence of characters.  A character is a one-character       *)
(* string; the Cyrillic letters are written by their code points           *)
(* ("U+0438" is the small letter i, "U+0418" the capital one).             *)
(***************************************************************************)
EXTENDS Integers, Sequences, FiniteSets, TLC

\* ------------------------------------------------------------------ bounds
\* Webhook requests (one task per inbound update) the model follows.
NumReqs == 3
\* Calls of fernet.encrypt the model follows (each draws a fresh IV).
MaxSeals == 2

\* Codes detectAndDecodeMulti reports in one image.
MaxCodes == 3

\* Length of the raw texts _normalize_fio is tried on exhaustively.
MaxLen == 5

\* ------------------------------------------------------- characters, text
None == [kind |-> "None"]

LowerLetters == {"a", "b", "U+0438", "U+0451"}
UpperLetters == {"A", "B", "U+0418", "U+0401"}

\* str.upper / str.lower on one character.
ToUpper(c) ==
    CASE c = "a" -> "A" [] c = "b" -> "B"
      [] c = "U+0438" -> "U+0418" [] c = "U+0451" -> "U+0401"
      [] OTHER -> c

ToLower(c) ==
    CASE c = "A" -> "a" [] c = "B" -> "b"
      [] c = "U+0418" -> "U+0438" [] c = "U+0401" -> "U+0451"
      [] OTHER -> c

\* The class [A-Za-zА-Яа-яЁё] of NAME_RE.
IsLetter(c) == c \in LowerLetters \cup UpperLetters

\* The separators [-'] of NAME_RE.
IsJoiner(c) == c \in {"-", "'"}

\* \s of NAME_RE, and what str.strip() removes.
IsSpace(c) == c \in {" ", "\n"}

RECURSIVE LStrip(_)
LStrip(s) == IF s # <<>> /\ IsSpace(Head(s)) THEN LStrip(Tail(s)) ELSE s

RECURSIVE RStrip(_)
RStrip(s) ==
    IF s # <<>> /\ IsSpace(s[Len(s)]) THEN RStrip(SubSeq(s, 1, Len(s) - 1)) ELSE s

\* str.strip()
Strip(s) == RStrip(LStrip(s))

\* str.startswith
StartsWith(s, p) == Len(s) >= Len(p) /\ SubSeq(s, 1, Len(p)) = p

\* str.endswith
EndsWith(s, p) == Len(s) >= Len(p) /\ SubSeq(s, Len(s) - Len(p) + 1, Len(s)) = p

\* The maximal runs of non-space characters of s, in order.
RECURSIVE Words(_, _)
Words(s, cur) ==
    IF s = <<>> THEN (IF cur = <<>> THEN <<>> ELSE <<cur>>)
    ELSE IF IsSpace(Head(s))
         THEN (IF cur = <<>> THEN <<>> ELSE <<cur>>) \o Words(Tail(s), <<>>)
         ELSE Words(Tail(s), Append(cur, Head(s)))

\* A group that may end in a joiner: letter+ ([-'] letter*)*
IsComponent_TrailingJoiner(w) ==
    /\ w # <<>>
    /\ \A i \in 1..Len(w) : IsLetter(w[i]) \/ IsJoiner(w[i])
    /\ IsLetter(w[1])
    /\ \A i \in 1..(Len(w) - 1) : ~(IsJoiner(w[i]) /\ IsJoiner(w[i + 1]))

\* One group of NAME_RE: letter+ ([-'] letter+)*
IsComponent(w) ==
    /\ w # <<>>
    /\ \A i \in 1..Len(w) : IsLetter(w[i]) \/ IsJoiner(w[i])
    /\ IsLetter(w[1]) /\ IsLetter(w[Len(w)])
    /\ \A i \in 1..(Len(w) - 1) : ~(IsJoiner(w[i]) /\ IsJoiner(w[i + 1]))

\* NAME_RE with its second group optional as well: one component matches.
NAME_RE_match_OneGroup(s) ==
    LET ws == Words(s, <<>>)
    IN  IF Len(ws) \in {1, 2, 3} /\ \A i \in 1..Len(ws) : IsComponent(ws[i])
        THEN [kind |-> "Match", groups |-> ws]
        ELSE None

\* NAME_RE.match(text).groups() without the unset third group, or None.
NAME_RE_match(s) ==
    LET ws == Words(s, <<>>)
    IN  IF Len(ws) \in {2, 3} /\ \A i \in 1..Len(ws) : IsComponent(ws[i])
        THEN [kind |-> "Match", groups |-> ws]
        ELSE None

\* str.capitalize() in place of str.title(): only the first letter is raised.
Title_Capitalize(w) ==
    [i \in 1..Len(w) |-> IF i = 1 THEN ToUpper(w[i]) ELSE ToLower(w[i])]

\* str.title(): a letter that follows a non-letter is upper-cased, any other
\* letter is lower-cased.
Title(w) ==
    [i \in 1..Len(w) |->
        IF i = 1 \/ ~IsLetter(w[i - 1]) THEN ToUpper(w[i]) ELSE ToLower(w[i])]

\* "-".join(parts) in place of " ".join(parts)
RECURSIVE JoinSpace_Hyphen(_)
JoinSpace_Hyphen(parts) ==
    IF parts = <<>> THEN <<>>
    ELSE IF Len(parts) = 1 THEN parts[1]
    ELSE parts[1] \o <<"-">> \o JoinSpace_Hyphen(Tail(parts))

\* " ".join(parts)
RECURSIVE JoinSpace(_)
JoinSpace(parts) ==
    IF parts = <<>> THEN <<>>
    ELSE IF Len(parts) = 1 THEN parts[1]
    ELSE parts[1] \o <<" ">> \o JoinSpace(Tail(parts))

\* A message text or QR payload: typed characters, or a base64 token text.
\*   [kind |-> "chars", chars |-> <<...>>]
\*   [kind |-> "b64", bytes |-> token bytes, junk |-> n]
\* where junk counts characters outside the base64 alphabet (such as "!")
\* that the text carries after the token's own characters.
Chars(s) == [kind |-> "chars", chars |-> s]

B64(bytes, junk) == [kind |-> "b64", bytes |-> bytes, junk |-> junk]

\* (update.effective_message.text or "").strip(): a token text holds no
\* white space, so strip() leaves it as it is.
StripText(t) == IF t.kind = "chars" THEN Chars(Strip(t.chars)) ELSE t

\* raw.startswith("/start"): a token text starts with "gAAAAA".
IsStartCommand(t) ==
    t.kind = "chars" /\ StartsWith(t.chars, <<"/", "s", "t", "a", "r", "t">>)

\* Python truth of a str: the empty string is false.
Truthy(t) == t # None /\ ~(t.kind = "chars" /\ t.chars = <<>>)

\* _normalize_fio: the title-cased groups joined by single spaces, or None.
\* A token text is one run of base64 characters and never matches NAME_RE,
\* which needs two groups separated by white space.
_normalize_fio(text) ==
    IF text.kind # "chars" THEN None
    ELSE LET m == NAME_RE_match(text.chars)
         IN  IF m = None THEN None
             ELSE Chars(JoinSpace([i \in 1..Len(m.groups) |-> Title(m.groups[i])]))

\* ------------------------------------------------------------ Token codec
\* Keys: FERNET_KEY is the process key, OTHER_KEY any other Fernet key.
FERNET_KEY == "K1"
OTHER_KEY == "K2"

\* AES-CBC under key with initialisation vector iv, as a symbolic term.
Encrypt(key, iv, plain) == [key |-> key, iv |-> iv, plain |-> plain]

\* HMAC-SHA256 under key over version, IV and ciphertext, as a symbolic term.
Hmac(key, iv, ct) == [key |-> key, iv |-> iv, ct |-> ct]

\* Fernet(key).encrypt(plain) with the IV drawn by os.urandom(16):
\* version 0x80, IV, ciphertext, HMAC.
FernetEncrypt(key, iv, plain) ==
    LET ct == Encrypt(key, iv, plain)
    IN  [version |-> 128, iv |-> iv, ct |-> ct, hmac |-> Hmac(key, iv, ct)]

\* base64.urlsafe_b64decode as Fernet calls it (validate = False): characters
\* outside the alphabet are discarded; text that is no token decodes to bytes
\* that carry no version byte.
UrlsafeB64decode(text) == IF text.kind = "b64" THEN text.bytes ELSE None

\* Fernet.decrypt letting the decoder's own error out for text that is no
\* base64 token, instead of raising InvalidToken for it.
FernetDecrypt_Leaky(key, text) ==
    LET data == UrlsafeB64decode(text)
    IN  IF data = None THEN [kind |-> "binascii.Error"]
        ELSE IF data.version # 128 THEN [kind |-> "InvalidToken"]
        ELSE IF data.hmac # Hmac(key, data.iv, data.ct) THEN [kind |-> "InvalidToken"]
        ELSE IF data.ct.key # key \/ data.ct.iv # data.iv THEN [kind |-> "InvalidToken"]
        ELSE [kind |-> "Plain", plain |-> data.ct.plain]

\* Fernet.decrypt without the comparison of the HMAC.
FernetDecrypt_NoHmac(key, text) ==
    LET data == UrlsafeB64decode(text)
    IN  IF data = None THEN [kind |-> "InvalidToken"]
        ELSE IF data.version # 128 THEN [kind |-> "InvalidToken"]
        ELSE IF data.ct.key # key \/ data.ct.iv # data.iv THEN [kind |-> "InvalidToken"]
        ELSE [kind |-> "Plain", plain |-> data.ct.plain]

\* Fernet(key).decrypt(token): the plaintext when the version byte is 0x80 and
\* the HMAC verifies under key, InvalidToken otherwise.
FernetDecrypt(key, text) ==
    LET data == UrlsafeB64decode(text)
    IN  IF data = None THEN [kind |-> "InvalidToken"]
        ELSE IF data.version # 128 THEN [kind |-> "InvalidToken"]
        ELSE IF data.hmac # Hmac(key, data.iv, data.ct) THEN [kind |-> "InvalidToken"]
        ELSE IF data.ct.key # key \/ data.ct.iv # data.iv THEN [kind |-> "InvalidToken"]
        ELSE [kind |-> "Plain", plain |-> data.ct.plain]

\* _encrypt_text with an IV that is the same in every call.
_encrypt_text_FixedIV(text, iv) == B64(FernetEncrypt(FERNET_KEY, 1, text), 0)

\* _encrypt_text: the token as text, with no character outside the alphabet.
_encrypt_text(text, iv) == B64(FernetEncrypt(FERNET_KEY, iv, text), 0)

\* _decrypt_text with a Fernet of another key.
_decrypt_text_OtherKey(token) == FernetDecrypt(OTHER_KEY, token)

\* _decrypt_text: the plaintext, or the InvalidToken it raises.
_decrypt_text(token) == FernetDecrypt(FERNET_KEY, token)

\* _token_fingerprint: SHA-256 of the token text, taken as collision free: a
\* digest names the text it was computed from, junk characters included.
_token_fingerprint(token_text) == [sha256 |-> token_text]

\* ----------------------------------------------------- Optical code codec
\* An image is what the two detectors of cv2 find in it:
\*   [raster |-> FALSE]                    bytes cv2.imdecode cannot read
\*   [raster |-> TRUE, single |-> t, multi |-> <<t, ...>>]
\* single is the text of detectAndDecode and multi the texts of
\* detectAndDecodeMulti, Chars(<<>>) standing for an empty result.
Empty == Chars(<<>>)

\* _make_qr_png_bytes: an image both detectors read the payload from.
_make_qr_png_bytes(payload) ==
    [raster |-> TRUE, single |-> payload, multi |-> <<payload>>]

\* The first non-empty text of texts, or None.
RECURSIVE FirstNonEmpty(_)
FirstNonEmpty(texts) ==
    IF texts = <<>> THEN None
    ELSE IF Truthy(Head(texts)) THEN Head(texts)
    ELSE FirstNonEmpty(Tail(texts))

\* An exception a function raises instead of returning.
Raise(name) == [kind |-> "raise", exc |-> name]

\* cv2.QRCodeDetector().detectAndDecode(img) returns three values:
\* (text, points, straight_qrcode).
DetectAndDecode(img) == <<img.single, "points", "straight_qrcode">>

\* cv2.QRCodeDetector().detectAndDecodeMulti(img) returns four values:
\* (retval, decoded_info, points, straight_qrcode).
DetectAndDecodeMulti(img) ==
    <<img.multi # <<>>, img.multi, "points", "straight_qrcode">>

\* _decode_qr: the text found, None, or the exception raised.  Lines 92 and
\* 95 each unpack the detector's result into three names; unpacking any other
\* number of values raises ValueError.
_decode_qr(img) ==
    LET one == DetectAndDecode(img)
    IN  IF Len(one) # 3 THEN Raise("ValueError: unpack")
        ELSE IF Truthy(one[1]) THEN one[1]
        ELSE LET many == DetectAndDecodeMulti(img)
             IN  IF Len(many) # 3 THEN Raise("ValueError: unpack")
                 ELSE IF many[1] # <<>> THEN FirstNonEmpty(many[1])
                 ELSE None

\* ------------------------------------------------------ Redemption ledger
\* The command tag asyncpg returns for an INSERT of n rows: "INSERT 0 n".
CommandTag(n) ==
    <<"I", "N", "S", "E", "R", "T", " ", "0", " ">> \o <<ToString(n)>>

\* Rows of table whose primary key token_hash equals fp.
RowsOf(table, fp) == {row \in table : row.token_hash = fp}

\* The same INSERT with ON CONFLICT (token_hash) DO UPDATE SET used_at = NOW():
\* a repeated claim rewrites the row.
InsertOnConflictDoUpdate(table, fp, t) ==
    [table |-> (table \ RowsOf(table, fp)) \cup {[token_hash |-> fp, used_at |-> t]},
     tag |-> CommandTag(1)]

\* INSERT INTO used_tokens(token_hash, used_at) VALUES (fp, NOW())
\* ON CONFLICT DO NOTHING: the table afterwards and the command tag.
InsertOnConflictDoNothing(table, fp, t) ==
    IF RowsOf(table, fp) # {}
    THEN [table |-> table, tag |-> CommandTag(0)]
    ELSE [table |-> table \cup {[token_hash |-> fp, used_at |-> t]},
          tag |-> CommandTag(1)]

\* res.startswith("INSERT") in place of the row count: true of every tag.
Inserted_AnyTag(res) == StartsWith(res, <<"I", "N", "S", "E", "R", "T">>)

\* _mark_token_used line 135: res.endswith(" 1")
Inserted(res) == EndsWith(res, <<" ", "1">>)

\* _is_token_used: SELECT 1 FROM used_tokens WHERE token_hash = fp
_is_token_used(table, token_text) ==
    RowsOf(table, _token_fingerprint(token_text)) # {}

\* ------------------------------------------------------------ environment
\* Names imported at module level (lines 1 to 20); random is not among them.
ImportedNames ==
    {"os", "io", "re", "Optional", "hashlib", "datetime", "FastAPI", "Request",
     "Header", "HTTPException", "JSONResponse", "Fernet", "InvalidToken",
     "qrcode", "np", "cv2", "Update", "Bot", "TelegramError", "asyncpg"}

VARIABLES
    ALLOWED_USERNAMES  \* the allow-list read from the environment, lower-cased

\* str.lower() on the user names of the model.
LowerName(u) == CASE u = "Alice" -> "alice" [] OTHER -> u

\* The secret the webhook is registered with; "" would switch the test off.
WEBHOOK_SECRET_TOKEN == "secret"

\* A request: the X-Telegram-Bot-Api-Secret-Token header, the sender's user
\* name ("" when the user has none) and the effective message (None when the
\* update carries no message), which holds a text or None and a photo or
\* None.  The payload always parses: Update.de_json does not raise.
Update(username, text, photo) ==
    [secret |-> WEBHOOK_SECRET_TOKEN, username |-> username,
     message |-> [text |-> text, photo |-> photo]]

\* _is_allowed_username admitting a sender that has no user name.
_is_allowed_username_NoneOk(update) ==
    IF ALLOWED_USERNAMES = {} THEN TRUE
    ELSE update.username = "" \/ LowerName(update.username) \in ALLOWED_USERNAMES

_is_allowed_username(update) ==
    IF ALLOWED_USERNAMES = {} THEN TRUE
    ELSE update.username # "" /\ LowerName(update.username) \in ALLOWED_USERNAMES

\* ----------------------------------------------------------------- inputs
RawTexts ==
    { <<"a", "B", " ", " ", "b", "-", "a">>,     \* "aB  b-a", a subject
      <<"U+0438", " ", "U+0401", "'", "b", "\n">>, \* a subject, Cyrillic
      <<"a", "b">>,                                \* one component
      <<"a", "1", " ", "b">>,                      \* a digit
      <<"/", "s", "t", "a", "r", "t">> }

\* A token sealed under another key, and a token of the process key with its
\* ciphertext edited after sealing (IV 0 is never drawn by the model).
ForeignToken == B64(FernetEncrypt(OTHER_KEY, 0, Chars(<<"A", " ", "B">>)), 0)

TamperedToken ==
    B64([FernetEncrypt(FERNET_KEY, 0, Chars(<<"A", " ", "B">>))
            EXCEPT !.ct.plain = Chars(<<"B", " ", "A">>)], 0)

\* A token text followed by one character outside the base64 alphabet.
WithJunk(token_text) == B64(token_text.bytes, token_text.junk + 1)

CorruptImage == [raster |-> FALSE, single |-> Empty, multi |-> <<>>]

BlankImage == [raster |-> TRUE, single |-> Empty, multi |-> <<>>]

\* The updates that need no issued token.
StaticUpdates ==
    {Update("Alice", Chars(s), None) : s \in RawTexts}
    \cup {Update("Alice", t, None) : t \in {ForeignToken, TamperedToken}}
    \cup {Update("Alice", None, i) :
            i \in {CorruptImage, BlankImage, _make_qr_png_bytes(ForeignToken),
                   _make_qr_png_bytes(TamperedToken),
                   _make_qr_png_bytes(Chars(<<"a", "b">>))}}
    \cup {Update("Alice", None, None)}
    \cup {Update("eve", Chars(<<"/", "s", "t", "a", "r", "t">>), None),
          Update("eve", Chars(<<"a", "B", " ", " ", "b", "-", "a">>), None),
          Update("", None, BlankImage)}
    \cup {[Update("Alice", None, None) EXCEPT !.message = None],
          [Update("Alice", None, BlankImage) EXCEPT !.secret = "guess"]}

\* The updates a holder of the issued image png can send: the image, the
\* image of its token text followed by a junk character, and the token text
\* typed as a message.
UpdatesFor(png) ==
    {Update("Alice", None, png),
     Update("Alice", None, _make_qr_png_bytes(WithJunk(png.single))),
     Update("Alice", png.single, None)}

\* ------------------------------------------------------------------ state
VARIABLES
    used_tokens,   \* the table used_tokens: rows [token_hash, used_at]
    now,           \* the store's clock, read by NOW()
    entropy,       \* how many IVs os.urandom has handed to fernet.encrypt
    req,           \* the webhook requests, by arrival number
    call           \* a function called on its own: its argument and result

vars == <<ALLOWED_USERNAMES, used_tokens, now, entropy, req, call>>

\* No function is called on its own.
NoCall == [fn |-> "none", arg |-> None, result |-> None]

Reqs == 1..NumReqs

\* What a request has sent to its chat, or the exception that left it.  The
\* sends themselves are taken to succeed.
Reply(kind, data) == [kind |-> kind, data |-> data]

NoReply == Reply("None", None)

\* An exception, as a reply quotes it or as it leaves the handler.
Exc(name) == [kind |-> "exception", name |-> name]

\* The wording of a reply that differs between the two handlers.
Wording(path) == [kind |-> "wording", path |-> path]

\* A request that has not arrived.
Idle ==
    [pc |-> "idle", update |-> None, path |-> "none", token |-> None,
     plain |-> None, res |-> <<>>, exc |-> "", reply |-> NoReply,
     stages |-> <<>>, claims |-> 0, prior |-> 0, overlap |-> 0]

\* The images sent out so far by send_photo.
IssuedImages ==
    {req[r].reply.data : r \in {q \in Reqs : req[q].reply.kind = "Issued"}}

\* The updates that can arrive in the current state.
Updates == StaticUpdates \cup UNION {UpdatesFor(png) : png \in IssuedImages}

\* The service after start-up: an empty table and no request.
Started ==
    /\ used_tokens = {}
    /\ now = 1
    /\ entropy = 0
    /\ req = [r \in Reqs |-> Idle]

Init ==
    /\ Started
    /\ ALLOWED_USERNAMES = {"alice"}
    /\ call = NoCall

\* --------------------------------------------------------------- handlers
\* A request that ends in the step that received it.
Finished(update, path, stages, reply) ==
    [Idle EXCEPT !.pc = "done", !.update = update, !.path = path,
                 !.stages = stages, !.reply = reply]

\* _handle_start
_handle_start(update, path) ==
    IF _is_allowed_username(update)
    THEN Finished(update, path, <<>>, Reply("Help", None))
    ELSE Finished(update, path, <<>>, Reply("Denied", None))

\* The call of _mark_token_used(token): the request waits for the store.
AwaitInsert(update, path, stages, token, plain) ==
    [Idle EXCEPT !.pc = "insert", !.update = update, !.path = path,
                 !.stages = stages, !.token = token, !.plain = plain,
                 !.claims = 1]

\* _handle_text up to its first wait on the store; iv is the IV os.urandom
\* hands to fernet.encrypt if the text is a subject.
_handle_text(update, iv) ==
    LET raw == StripText(IF update.message.text = None THEN Empty
                         ELSE update.message.text)
        fio == _normalize_fio(raw)
        opened == _decrypt_text(raw)
    IN  IF IsStartCommand(raw) THEN _handle_start(update, "text")
        ELSE IF Truthy(fio)
        THEN Finished(update, "text", <<>>,
                      Reply("Issued", _make_qr_png_bytes(_encrypt_text(fio, iv))))
        ELSE IF opened.kind = "InvalidToken"
        THEN Finished(update, "text", <<"Received", "Decoded">>,
                      Reply("DecryptionFailed", Wording("text")))
        ELSE IF opened.kind # "Plain"
        THEN Finished(update, "text", <<"Received", "Decoded">>,
                      Reply("Raised", Exc(opened.kind)))
        ELSE AwaitInsert(update, "text", <<"Received", "Decoded", "Decrypted">>,
                         raw, opened.plain)

\* _handle_photo up to its first wait on the store.
_handle_photo(update) ==
    LET img == update.message.photo
        qr_text == _decode_qr(img)
        opened == _decrypt_text(qr_text)
    IN  IF ~img.raster
        THEN Finished(update, "photo", <<"Received">>,
                      Reply("PhotoError", Exc("ValueError")))
        ELSE IF qr_text.kind = "raise"
        THEN Finished(update, "photo", <<"Received">>,
                      Reply("PhotoError", Exc(qr_text.exc)))
        ELSE IF ~Truthy(qr_text)
        THEN Finished(update, "photo", <<"Received">>,
                      Reply("NoCodeDetected", None))
        ELSE IF opened.kind = "InvalidToken"
        THEN Finished(update, "photo", <<"Received", "Decoded">>,
                      Reply("DecryptionFailed", Wording("photo")))
        ELSE IF opened.kind # "Plain"
        THEN Finished(update, "photo", <<"Received", "Decoded">>,
                      Reply("PhotoError", Exc(opened.kind)))
        ELSE AwaitInsert(update, "photo", <<"Received", "Decoded", "Decrypted">>,
                         qr_text, opened.plain)

\* telegram_webhook up to the first wait on the store.
telegram_webhook(update, iv) ==
    LET msg == update.message
    IN  IF WEBHOOK_SECRET_TOKEN # "" /\ update.secret # WEBHOOK_SECRET_TOKEN
        THEN Finished(update, "none", <<>>, Reply("Http401", None))
        ELSE IF msg = None THEN Finished(update, "none", <<>>, Reply("Ok", None))
        ELSE IF Truthy(msg.text) /\ IsStartCommand(StripText(msg.text))
        THEN _handle_start(update, "none")
        ELSE IF ~_is_allowed_username(update)
        THEN Finished(update, "none", <<>>, Reply("Denied", None))
        ELSE IF msg.photo # None THEN _handle_photo(update)
        ELSE IF Truthy(msg.text) THEN _handle_text(update, iv)
        ELSE Finished(update, "none", <<>>, Reply("Usage", None))

\* _handle_text from line 169, with the value _mark_token_used returned.
TextAfterClaim(r, inserted) ==
    IF ~inserted THEN Reply("ReplayDetected", None)
    ELSE IF "random" \notin ImportedNames THEN Reply("Raised", Exc("NameError"))
    ELSE Reply("Redeemed", r.plain)

\* _handle_photo without the test of inserted at line 199.
PhotoAfterClaim_Unchecked(r, inserted) == Reply("Redeemed", r.plain)

\* _handle_photo from line 198, with the value _mark_token_used returned.
PhotoAfterClaim(r, inserted) ==
    IF ~inserted THEN Reply("ReplayDetected", None)
    ELSE Reply("Redeemed", r.plain)

\* An exception exc raised inside _mark_token_used: _handle_text has no
\* handler for it, _handle_photo reports it from its except clause.
AfterException(r, exc) ==
    IF r.path = "photo" THEN Reply("PhotoError", Exc(exc))
    ELSE Reply("Raised", Exc(exc))

\* The outcome of the design a reply stands for.  The except clause of
\* _handle_photo reports every exception with one message that quotes it: the
\* ValueError of _download_photo_as_ndarray is ImageDecodeFailed, an exception
\* of the store LedgerUnavailable.  An exception that leaves the handler is no
\* outcome of the design, and neither are the replies of the transport nor
\* the report of any other exception.
Outcome(reply) ==
    CASE reply.kind \in {"Issued", "Redeemed", "DecryptionFailed",
                         "ReplayDetected", "NoCodeDetected"} -> reply.kind
      [] reply.kind = "PhotoError" /\ reply.data = Exc("ValueError") -> "ImageDecodeFailed"
      [] reply.kind = "PhotoError" /\ reply.data = Exc("PostgresError") -> "LedgerUnavailable"
      [] reply.kind = "PhotoError"
            /\ reply.data \notin {Exc("ValueError"), Exc("PostgresError")} ->
                "UnexpectedError"
      [] reply.kind = "Raised" -> "RawException"
      [] OTHER -> "Transport"

\* ---------------------------------------------------------------- actions
\* Request r arrives with update u and runs until it ends or waits for the
\* store.  Requests are numbered in the order they arrive.
Webhook(r, u) ==
    /\ req[r].pc = "idle"
    /\ IF r = 1 THEN TRUE ELSE req[r - 1].pc # "idle"
    /\ LET next == telegram_webhook(u, entropy + 1)
       IN  /\ next.reply.kind = "Issued" => entropy < MaxSeals
           /\ req' = [req EXCEPT ![r] = next]
           /\ entropy' = IF next.reply.kind = "Issued" THEN entropy + 1 ELSE entropy
    /\ UNCHANGED <<ALLOWED_USERNAMES, used_tokens, now, call>>

\* The store runs the INSERT of request r and answers with its command tag.
StoreExecute(r) ==
    /\ req[r].pc = "insert"
    /\ LET out == InsertOnConflictDoNothing(
                      used_tokens, _token_fingerprint(req[r].token), now)
           same == {q \in Reqs \ {r} : req[q].token = req[r].token}
       IN  /\ used_tokens' = out.table
           /\ req' = [req EXCEPT ![r].pc = "returned", ![r].res = out.tag,
                         ![r].prior = Cardinality({q \in same : req[q].res # <<>>}),
                         ![r].overlap = Cardinality({q \in same : req[q].pc = "insert"})]
    /\ now' = now + 1
    /\ UNCHANGED <<ALLOWED_USERNAMES, entropy, call>>

\* A store that raises after the INSERT has run and its row is written.
StoreError_HalfWritten(r) ==
    /\ req[r].pc = "insert"
    /\ used_tokens' = InsertOnConflictDoNothing(
                          used_tokens, _token_fingerprint(req[r].token), now).table
    /\ req' = [req EXCEPT ![r].pc = "raised", ![r].exc = "PostgresError"]
    /\ UNCHANGED <<ALLOWED_USERNAMES, now, entropy, call>>

\* The store, or the connection to it, fails before the INSERT has run:
\* acquire() or execute() raises.
StoreError(r) ==
    /\ req[r].pc = "insert"
    /\ req' = [req EXCEPT ![r].pc = "raised", ![r].exc = "PostgresError"]
    /\ UNCHANGED <<ALLOWED_USERNAMES, used_tokens, now, entropy, call>>

\* Request r resumes with the command tag and runs to its end.
MarkReturns(r) ==
    /\ req[r].pc = "returned"
    /\ LET inserted == Inserted(req[r].res)
       IN  req' = [req EXCEPT ![r].pc = "done",
                       ![r].stages = Append(@, IF inserted THEN "Claimed" ELSE "Rejected"),
                       ![r].reply = IF req[r].path = "text"
                                    THEN TextAfterClaim(req[r], inserted)
                                    ELSE PhotoAfterClaim(req[r], inserted)]
    /\ UNCHANGED <<ALLOWED_USERNAMES, used_tokens, now, entropy, call>>

\* A handler that calls _mark_token_used again when the store has failed.
MarkRaises_Retry(r) ==
    /\ req[r].pc = "raised"
    /\ req' = [req EXCEPT ![r].pc = "insert", ![r].exc = "", ![r].claims = @ + 1]
    /\ UNCHANGED <<ALLOWED_USERNAMES, used_tokens, now, entropy, call>>

\* Request r resumes with the exception of the store and runs to its end.
MarkRaises(r) ==
    /\ req[r].pc = "raised"
    /\ req' = [req EXCEPT ![r].pc = "done",
                          ![r].stages = Append(@, "Rejected"),
                          ![r].reply = AfterException(req[r], req[r].exc)]
    /\ UNCHANGED <<ALLOWED_USERNAMES, used_tokens, now, entropy, call>>

Next ==
    \/ \E r \in Reqs : \E u \in Updates : Webhook(r, u)
    \/ \E r \in Reqs : StoreExecute(r)
    \/ \E r \in Reqs : StoreError(r)
    \/ \E r \in Reqs : MarkReturns(r)
    \/ \E r \in Reqs : MarkRaises(r)

Spec == Init /\ [][Next]_vars

\* The handler steps are tasks of the event loop and run when they can; the
\* store is outside the process and nothing obliges it to answer.
FairSpec ==
    /\ Spec
    /\ \A r \in Reqs : WF_vars(MarkReturns(r)) /\ WF_vars(MarkRaises(r))

\* ------------------------------------------------------------- properties
Done(r) == req[r].pc = "done"

\* _mark_token_used has returned to request r.
Answered(r) == req[r].res # <<>>

\* Requests whose _mark_token_used was called with the fingerprint of r's.
SameFingerprint(r) ==
    {q \in Reqs : /\ req[q].claims > 0
                  /\ _token_fingerprint(req[q].token) = _token_fingerprint(req[r].token)}

\* What section 4.1 of the design gives for the typed texts of the model: the
\* subject, or None.
Validate(chars) ==
    CASE chars = <<"a", "B", " ", " ", "b", "-", "a">> ->
            Chars(<<"A", "b", " ", "B", "-", "A">>)
      [] chars = <<"U+0438", " ", "U+0401", "'", "b", "\n">> ->
            Chars(<<"U+0418", " ", "U+0401", "'", "B">>)
      [] OTHER -> None

\* C1: among the calls of _mark_token_used on one fingerprint that have
\* returned, exactly one returned true, however the calls interleave, and it
\* is the one the store ran first: every call after it returned false.
C1_ExactlyOneClaimWins ==
    \A r \in Reqs : Answered(r) =>
        /\ Cardinality({q \in SameFingerprint(r) :
                            Answered(q) /\ Inserted(req[q].res)}) = 1
        /\ Inserted(req[r].res) <=> req[r].prior = 0

\* Two calls on one fingerprint were pending together; one returned true, the
\* other false.
C1_Witness ==
    \E r \in Reqs : \E q \in SameFingerprint(r) \ {r} :
        /\ Answered(r) /\ Answered(q)
        /\ req[r].overlap >= 1
        /\ Inserted(req[r].res) /\ ~Inserted(req[q].res)

\* C2: of the requests that redeem one token text, as a message text or as
\* a photo, at most one ever replies with success.
C2_AtMostOneRedeemed ==
    \A r \in Reqs : req[r].claims > 0 =>
        Cardinality({q \in Reqs : /\ req[q].token = req[r].token
                                  /\ req[q].reply.kind = "Redeemed"}) <= 1

\* One token text was redeemed by photo and by text; one reply is the
\* success, another the replay.
C2_Witness ==
    \E r, q \in Reqs :
        /\ req[r].token # None /\ req[q].token = req[r].token
        /\ req[r].path = "photo" /\ req[q].path = "text"
        /\ req[r].reply.kind = "Redeemed"
        /\ req[q].reply.kind = "ReplayDetected"

\* Request r redeems, as a photo, the image request i was sent.
RedeemsImageOf(r, i) ==
    /\ req[i].reply.kind = "Issued"
    /\ req[r].path = "photo"
    /\ req[r].update.message.photo = req[i].reply.data

\* C3: when a typed text was issued as an image and the store answered a
\* photo redeem of that image, the redeem replied with success and the
\* subject of the text if it was the first claim on the token, and with
\* ReplayDetected if it was a later one.
C3_IssueThenRedeemOnce ==
    \A i, r \in Reqs : (RedeemsImageOf(r, i) /\ Done(r) /\ Answered(r)) =>
        IF req[r].prior = 0
        THEN req[r].reply =
                Reply("Redeemed", Validate(req[i].update.message.text.chars))
        ELSE req[r].reply = Reply("ReplayDetected", None)

\* An issued image was redeemed twice by photo: success, then replay.
C3_Witness ==
    \E i, r, q \in Reqs :
        /\ RedeemsImageOf(r, i) /\ RedeemsImageOf(q, i) /\ r # q
        /\ req[i].update.message.text.chars = <<"a", "B", " ", " ", "b", "-", "a">>
        /\ req[r].reply.kind = "Redeemed"
        /\ req[q].reply.kind = "ReplayDetected"

\* C4: a redeem whose token text opened ends as the claim decided, on both
\* paths: ReplayDetected when _mark_token_used returned false, success with
\* the opened subject when it returned true.
C4_ClaimDecidesOutcome ==
    \A r \in Reqs : (Done(r) /\ Answered(r)) =>
        IF Inserted(req[r].res)
        THEN req[r].reply = Reply("Redeemed", _decrypt_text(req[r].token).plain)
        ELSE req[r].reply = Reply("ReplayDetected", None)

\* C5: a redeem whose claim failed in the store ends as LedgerUnavailable on
\* both paths, having called _mark_token_used once.
C5_LedgerFailureIsReported ==
    \A r \in Reqs : (Done(r) /\ req[r].exc # "") =>
        /\ Outcome(req[r].reply) = "LedgerUnavailable"
        /\ req[r].claims = 1

\* Request r is a typed text that reached _handle_text.
TypedText(r) ==
    /\ req[r].path = "text"
    /\ req[r].update.message.text.kind = "chars"

\* C6 as the design states it: a typed text the grammar rejects ends as
\* InvalidSubjectFormat, one it accepts as Issued with the image of its
\* sealed subject.
C6_RejectedTextIsInvalidSubject ==
    \A r \in Reqs : (Done(r) /\ TypedText(r)) =>
        LET s == Validate(req[r].update.message.text.chars)
        IN  IF s = None
            THEN Outcome(req[r].reply) = "InvalidSubjectFormat"
            ELSE /\ req[r].reply.kind = "Issued"
                 /\ _decrypt_text(_decode_qr(req[r].reply.data)) =
                        [kind |-> "Plain", plain |-> s]

\* C6, amended: a typed text the grammar accepts ends as Issued with an
\* image that decodes to a token of its subject; one the grammar rejects is
\* taken for a token text and, opening under no key, ends as DecryptionFailed.
C6_RejectedTextIsTakenForToken ==
    \A r \in Reqs : (Done(r) /\ TypedText(r)) =>
        LET s == Validate(req[r].update.message.text.chars)
        IN  IF s = None
            THEN req[r].reply = Reply("DecryptionFailed", Wording("text"))
            ELSE /\ req[r].reply.kind = "Issued"
                 /\ _decrypt_text(_decode_qr(req[r].reply.data)) =
                        [kind |-> "Plain", plain |-> s]

\* One typed text was issued and another, of one component, was answered
\* with DecryptionFailed.
C6_Witness ==
    \E r, q \in Reqs :
        /\ Done(r) /\ TypedText(r) /\ req[r].reply.kind = "Issued"
        /\ Done(q) /\ TypedText(q)
        /\ req[q].update.message.text.chars = <<"a", "b">>
        /\ req[q].reply.kind = "DecryptionFailed"

\* The outcomes of the design.
TypedOutcomes ==
    {"Issued", "Redeemed", "InvalidSubjectFormat", "NoCodeDetected",
     "ImageDecodeFailed", "DecryptionFailed", "ReplayDetected",
     "LedgerUnavailable"}

\* C7: every request that reached _handle_text or _handle_photo ends in one
\* of the outcomes of the design; no exception leaves the handler.
C7_EveryRequestEndsTyped ==
    \A r \in Reqs : (Done(r) /\ req[r].path \in {"text", "photo"}) =>
        Outcome(req[r].reply) \in TypedOutcomes

\* C8: a request that waits for the store always comes to its end.
C8_ClaimNeverHangs ==
    \A r \in Reqs : (req[r].pc = "insert") ~> Done(r)

\* No two rows of the table share their key.
PrimaryKey(table) ==
    \A row1, row2 \in table : row1.token_hash = row2.token_hash => row1 = row2

\* C9: no step removes or rewrites a row of used_tokens, and no two rows
\* ever share a fingerprint.
C9_LedgerEntriesArePermanent ==
    [][used_tokens \subseteq used_tokens' /\ PrimaryKey(used_tokens')]_vars

\* A claim was repeated on a fingerprint the table holds, and the row of the
\* first claim is the one in the table.
C9_Witness ==
    \E r \in Reqs : \E q \in SameFingerprint(r) \ {r} :
        /\ Answered(r) /\ ~Inserted(req[r].res)
        /\ Answered(q) /\ Inserted(req[q].res)
        /\ \E row \in used_tokens :
              /\ row.token_hash = _token_fingerprint(req[r].token)
              /\ row.used_at < now - 1

\* The text request r hands to _decrypt_text, or None when it hands none.
Candidate(r) ==
    IF req[r].path = "text" THEN StripText(req[r].update.message.text)
    ELSE IF req[r].path = "photo" /\ req[r].update.message.photo.raster
    THEN LET qr_text == _decode_qr(req[r].update.message.photo)
         IN  IF qr_text.kind = "raise" THEN None ELSE qr_text
    ELSE None

\* Why a text does not open under the process key.
FailureCause(text) ==
    LET data == UrlsafeB64decode(text)
    IN  IF data = None THEN "malformed"
        ELSE IF data.hmac.key # FERNET_KEY THEN "wrong key"
        ELSE IF data.hmac # Hmac(FERNET_KEY, data.iv, data.ct) THEN "tampered"
        ELSE "none"

\* Request r is a redeem, not an issue, of a text that does not open.
FailsToOpen(r) ==
    /\ Done(r)
    /\ req[r].path \in {"text", "photo"}
    /\ req[r].reply.kind # "Issued"
    /\ LET text == Candidate(r)
       IN  Truthy(text) /\ FailureCause(text) # "none"

\* C10: a redeem of a text that does not open ends as DecryptionFailed
\* without a call of _mark_token_used, and two such redeems on one path get
\* the same reply whatever the causes.
C10_DecryptFailuresAlike ==
    \A r \in Reqs : FailsToOpen(r) =>
        /\ req[r].reply.kind = "DecryptionFailed"
        /\ req[r].claims = 0
        /\ \A q \in Reqs \ {r} :
              (req[q].path = req[r].path /\ FailsToOpen(q)) =>
                  req[q].reply = req[r].reply

\* The three causes met on the photo path, with one reply.
C10_Witness ==
    \E r, q, p \in Reqs :
        /\ FailsToOpen(r) /\ FailsToOpen(q) /\ FailsToOpen(p)
        /\ req[r].path = "photo" /\ req[q].path = "photo" /\ req[p].path = "photo"
        /\ FailureCause(Candidate(r)) = "wrong key"
        /\ FailureCause(Candidate(q)) = "tampered"
        /\ FailureCause(Candidate(p)) = "malformed"
        /\ req[r].reply = req[q].reply /\ req[q].reply = req[p].reply

\* ------------------------------------------------- functions on their own
\* The result of a call that has not returned.
Pending == [kind |-> "pending"]

\* A call of fn on arg, before it runs.
Call(fn, arg) == [fn |-> fn, arg |-> arg, result |-> Pending]

\* The sequences over S of length n at most.
SeqsUpTo(S, n) == UNION {[1..k -> S] : k \in 0..n}

\* What a detector decodes from one code: nothing, typed text or a token.
QrPayloads == {Empty, Chars(<<"a">>), ForeignToken}

\* The images cv2.imdecode reads, by what the two detectors find in them.
Images ==
    {[raster |-> TRUE, single |-> t, multi |-> m] :
        t \in QrPayloads, m \in SeqsUpTo(QrPayloads, MaxCodes)}

InitDecode ==
    /\ Started
    /\ ALLOWED_USERNAMES = {"alice"}
    /\ call \in {Call("_decode_qr", img) : img \in Images}

\* _decode_qr(img) runs.
CallDecodeQr ==
    /\ call.fn = "_decode_qr" /\ call.result = Pending
    /\ call' = [call EXCEPT !.result = _decode_qr(call.arg)]
    /\ UNCHANGED <<ALLOWED_USERNAMES, used_tokens, now, entropy, req>>

NextDecode == CallDecodeQr

SpecDecode == InitDecode /\ [][NextDecode]_vars

\* The policy of section 4.3: the single detector's text when it is not
\* empty, otherwise the multi detector's first text that is not empty,
\* otherwise nothing.
DecodePolicy(img) ==
    LET found == {i \in 1..Len(img.multi) : img.multi[i] # Empty}
    IN  IF img.single # Empty THEN img.single
        ELSE IF found = {} THEN None
        ELSE img.multi[CHOOSE i \in found : \A j \in found : i <= j]

\* C11: _decode_qr returns what the policy gives for every pair of detector
\* results, and raises nothing.
C11_DecodeFollowsPolicy ==
    (call.fn = "_decode_qr" /\ call.result # Pending) =>
        call.result = DecodePolicy(call.arg)

\* No detector finds text in img.
NoCodeYieldsText(img) ==
    img.single = Empty /\ \A i \in 1..Len(img.multi) : img.multi[i] = Empty

\* C12: a photo request whose bytes cannot be read ends as
\* ImageDecodeFailed, one whose image holds no code that yields text ends as
\* NoCodeDetected, and neither opens a token or calls _mark_token_used.
C12_ImageFailuresAreTold ==
    \A r \in Reqs : (Done(r) /\ req[r].path = "photo") =>
        LET img == req[r].update.message.photo
        IN  /\ ~img.raster =>
                /\ Outcome(req[r].reply) = "ImageDecodeFailed"
                /\ req[r].stages = <<"Received">> /\ req[r].claims = 0
            /\ (img.raster /\ NoCodeYieldsText(img)) =>
                /\ Outcome(req[r].reply) = "NoCodeDetected"
                /\ req[r].stages = <<"Received">> /\ req[r].claims = 0

\* The characters the raw texts are built from: letters of both cases, the
\* two joiners, a space and a digit.
RawAlphabet == {"a", "B", "-", "'", " ", "1"}

\* Raw texts beyond MaxLen: four components, Cyrillic letters, a line break.
LongRawTexts ==
    RawTexts \cup
    { <<"a", " ", "B", " ", "a", " ", "B">>,
      <<"U+0438", "-", "b", " ", "a", "U+0451">>,
      <<"\n", "U+0401", "U+0438", "\n", "a", "'", "U+0451", " ", "B", "\n">> }

InitValidate ==
    /\ Started
    /\ ALLOWED_USERNAMES = {"alice"}
    /\ call \in {Call("_normalize_fio", Chars(raw)) :
                    raw \in SeqsUpTo(RawAlphabet, MaxLen) \cup LongRawTexts}

\* _normalize_fio(text) runs.
CallNormalizeFio ==
    /\ call.fn = "_normalize_fio" /\ call.result = Pending
    /\ call' = [call EXCEPT !.result = _normalize_fio(call.arg)]
    /\ UNCHANGED <<ALLOWED_USERNAMES, used_tokens, now, entropy, req>>

NextValidate == CallNormalizeFio

SpecValidate == InitValidate /\ [][NextValidate]_vars

\* The grammar of section 4.1 read one character at a time.  at is "gap"
\* (before the first component or in white space), "letter" or "joiner"; n
\* counts the components begun.  The result is the subject built so far, or
\* None when the text leaves the grammar.
RECURSIVE Grammar(_, _, _, _)
Grammar(s, at, n, out) ==
    IF s = <<>>
    THEN (IF at # "joiner" /\ n \in {2, 3} THEN Chars(out) ELSE None)
    ELSE LET c == Head(s)
             letter == c \in {"a", "b", "A", "B", "U+0438", "U+0451",
                              "U+0418", "U+0401"}
         IN  CASE at = "gap" /\ c \in {" ", "\n"} -> Grammar(Tail(s), "gap", n, out)
               [] at = "gap" /\ letter ->
                    Grammar(Tail(s), "letter", n + 1,
                            out \o (IF n = 0 THEN <<>> ELSE <<" ">>) \o <<ToUpper(c)>>)
               [] at = "letter" /\ letter ->
                    Grammar(Tail(s), "letter", n, Append(out, ToLower(c)))
               [] at = "letter" /\ c \in {"-", "'"} ->
                    Grammar(Tail(s), "joiner", n, Append(out, c))
               [] at = "letter" /\ c \in {" ", "\n"} ->
                    Grammar(Tail(s), "gap", n, out)
               [] at = "joiner" /\ letter ->
                    Grammar(Tail(s), "letter", n, Append(out, ToUpper(c)))
               [] OTHER -> None

\* _normalize_fio has returned.
Normalized == call.fn = "_normalize_fio" /\ call.result # Pending

\* C13: _normalize_fio returns a subject exactly for the texts of two or
\* three components of the grammar, and the subject is the components with
\* each sub-part title-cased, joined by single spaces.
C13_ValidateMatchesGrammar ==
    Normalized => call.result = Grammar(call.arg.chars, "gap", 0, <<>>)

\* The analogue of "иван-петров артём" was normalized.
C13_Witness ==
    /\ Normalized
    /\ call.arg = Chars(<<"U+0438", "-", "b", " ", "a", "U+0451">>)
    /\ call.result = Chars(<<"U+0418", "-", "B", " ", "A", "U+0451">>)

\* C14: normalizing a subject that _normalize_fio returned gives that
\* subject again.
C14_NormalizeIsIdempotent ==
    (Normalized /\ call.result # None) => _normalize_fio(call.result) = call.result

\* A text of three components with a line break and an apostrophe was
\* normalized to a subject that differs from it.
C14_Witness ==
    /\ Normalized
    /\ call.arg.chars =
          <<"\n", "U+0401", "U+0438", "\n", "a", "'", "U+0451", " ", "B", "\n">>
    /\ call.result # None /\ call.result # call.arg

\* The subject request q sealed into the token it issued.
SealedBy(q) == _normalize_fio(StripText(req[q].update.message.text))

Issuers == {q \in Reqs : req[q].reply.kind = "Issued"}

\* C15: the token of every issued image opens to the subject that was sealed
\* into it, and whatever a request opened is the subject some request sealed
\* into a token of the same bytes.
C15_OpenInvertsSeal ==
    /\ \A q \in Issuers :
          _decrypt_text(req[q].reply.data.single)
              = [kind |-> "Plain", plain |-> SealedBy(q)]
    /\ \A r \in Reqs : req[r].plain # None =>
          \E q \in Issuers :
              /\ req[q].reply.data.single.bytes = req[r].token.bytes
              /\ req[r].plain = SealedBy(q)

\* An issued token came back and was opened, and the token whose ciphertext
\* was edited was refused.
C15_Witness ==
    /\ \E q \in Issuers : \E r \in Reqs :
          /\ req[r].token = req[q].reply.data.single
          /\ req[r].plain = SealedBy(q)
    /\ \E r \in Reqs :
          /\ req[r].update # None /\ req[r].update.message # None
          /\ req[r].update.message.text = TamperedToken
          /\ req[r].reply.kind = "DecryptionFailed"

IsPrefix(a, b) == Len(a) <= Len(b) /\ SubSeq(b, 1, Len(a)) = a

\* The two complete lifecycles of a redemption attempt.
Lifecycles ==
    {<<"Received", "Decoded", "Decrypted", "Claimed">>,
     <<"Received", "Decoded", "Decrypted", "Rejected">>}

\* C16: in every step each request keeps the stages it has passed and adds
\* only the next ones of a lifecycle, a finished request never changes again,
\* what it opened is never replaced, and _mark_token_used is called at most
\* once for it.
C16_AttemptOnlyMovesForward ==
    [][\A r \in Reqs :
          /\ IsPrefix(req[r].stages, req'[r].stages)
          /\ \E l \in Lifecycles : IsPrefix(req'[r].stages, l)
          /\ Done(r) => req'[r] = req[r]
          /\ req[r].pc # "idle" => req'[r].pc # "idle"
          /\ req[r].plain # None => req'[r].plain = req[r].plain
          /\ req[r].claims <= req'[r].claims /\ req'[r].claims <= 1]_vars

\* One attempt ended Claimed and one ended Rejected after the store failed
\* its claim.
C16_Witness ==
    /\ \E r \in Reqs : /\ Done(r) /\ req[r].claims = 1
                       /\ req[r].stages = <<"Received", "Decoded", "Decrypted", "Claimed">>
    /\ \E r \in Reqs : /\ Done(r) /\ req[r].claims = 1
                       /\ req[r].exc = "PostgresError"
                       /\ req[r].stages = <<"Received", "Decoded", "Decrypted", "Rejected">>

\* Request r is at the INSERT of _mark_token_used and the store runs it.
Claims(r) == req[r].pc = "insert" /\ req'[r].pc = "returned"

\* C17: the table changes only in a step in which the store runs the INSERT
\* of one request whose fingerprint has no row, and then by exactly that
\* row; an INSERT for a fingerprint that has a row, and every other step,
\* leave the table as it is.
C17_OnlyFreshClaimsWrite ==
    [][/\ used_tokens' # used_tokens =>
            \E r \in Reqs :
                LET fp == _token_fingerprint(req[r].token)
                IN  /\ Claims(r)
                    /\ RowsOf(used_tokens, fp) = {}
                    /\ \E t \in 1..now :
                          used_tokens' = used_tokens
                              \cup {[token_hash |-> fp, used_at |-> t]}
       /\ \A r \in Reqs :
            (Claims(r) /\ RowsOf(used_tokens, _token_fingerprint(req[r].token)) # {})
                => used_tokens' = used_tokens]_vars

\* The table holds one row although two claims were answered, a token was
\* issued and the table read by _is_token_used shows the claimed token.
C17_Witness ==
    /\ Cardinality(used_tokens) = 1
    /\ Cardinality({r \in Reqs : Answered(r)}) = 2
    /\ \E r \in Reqs : Answered(r) /\ ~Inserted(req[r].res)
                       /\ _is_token_used(used_tokens, req[r].token)
    /\ Issuers # {}

\* ------------------------------------------- two tokens issued beforehand
\* The subjects the typed texts of the model normalize to.
PairSubjects == {_normalize_fio(Chars(raw)) : raw \in RawTexts} \ {None}

\* Two calls of _encrypt_text made by requests that have ended: the first
\* drew IV 1 and the second IV 2.
SealedPair(s1, s2) ==
    [fn |-> "_encrypt_text", arg |-> <<s1, s2>>,
     result |-> <<_make_qr_png_bytes(_encrypt_text(s1, 1)),
                  _make_qr_png_bytes(_encrypt_text(s2, 2))>>]

\* The service after two tokens were issued, for one subject or for two.
InitPair ==
    /\ used_tokens = {}
    /\ now = 1
    /\ entropy = 2
    /\ req = [r \in Reqs |-> Idle]
    /\ ALLOWED_USERNAMES = {"alice"}
    /\ call \in {SealedPair(_normalize_fio(Chars(<<"a", "B", " ", " ", "b", "-", "a">>)), s2) :
                    s2 \in PairSubjects}

\* What the holders of the two images send: each image, and a subject to
\* issue a further token for.
PairUpdates ==
    {Update("Alice", None, call.result[i]) : i \in 1..2}
    \cup {Update("Alice", Chars(<<"a", "B", " ", " ", "b", "-", "a">>), None)}

NextPair ==
    \/ \E r \in Reqs : \E u \in PairUpdates : Webhook(r, u)
    \/ \E r \in Reqs : StoreExecute(r)
    \/ \E r \in Reqs : StoreError(r)
    \/ \E r \in Reqs : MarkReturns(r)
    \/ \E r \in Reqs : MarkRaises(r)

SpecPair == InitPair /\ [][NextPair]_vars

\* C18: the tokens of two calls of _encrypt_text differ, and so do their
\* fingerprints, whether or not the subject is the same; and a claim is
\* refused exactly when a claim of the same token text was answered before
\* it, so the redemption of one token leaves the other redeemable.
C18_SeparateTokensAreIndependent ==
    /\ call.fn = "_encrypt_text" =>
          /\ call.result[1].single # call.result[2].single
          /\ _token_fingerprint(call.result[1].single)
                # _token_fingerprint(call.result[2].single)
          /\ \A q \in Issuers : \A i \in 1..2 :
                req[q].reply.data.single # call.result[i].single
    /\ \A q \in Issuers : \A p \in Issuers \ {q} :
          req[q].reply.data.single # req[p].reply.data.single
    /\ \A r \in Reqs :
          Answered(r) => (Inserted(req[r].res) <=> req[r].prior = 0)

\* Two tokens sealed for one subject were both redeemed, and a second
\* presentation of the first was refused.
C18_Witness ==
    /\ call.fn = "_encrypt_text" /\ call.arg[1] = call.arg[2]
    /\ \A i \in 1..2 : \E r \in Reqs :
          /\ req[r].token = call.result[i].single
          /\ req[r].reply = Reply("Redeemed", call.arg[i])
    /\ \E r \in Reqs :
          /\ req[r].token = call.result[1].single
          /\ req[r].reply.kind = "ReplayDetected"

\* C19: _mark_token_used is called only for a token text that opened under
\* the process key; a request answers Redeemed only when its own INSERT wrote
\* the row, and then the table holds its fingerprint; and every row of the
\* table is the fingerprint of a token text that opens under the process key
\* and that some request claimed.
C19_LedgerHoldsOnlyOpenedTokens ==
    /\ \A r \in Reqs : req[r].claims > 0 =>
          /\ IsPrefix(<<"Received", "Decoded", "Decrypted">>, req[r].stages)
          /\ req[r].plain # None
          /\ FailureCause(req[r].token) = "none"
    /\ \A r \in Reqs : req[r].reply.kind = "Redeemed" =>
          /\ Answered(r) /\ Inserted(req[r].res)
          /\ \E row \in used_tokens :
                row.token_hash = _token_fingerprint(req[r].token)
    /\ \A row \in used_tokens :
          /\ FailureCause(row.token_hash.sha256) = "none"
          /\ \E r \in Reqs : /\ req[r].claims > 0
                             /\ _token_fingerprint(req[r].token) = row.token_hash

\* A token was redeemed and its row written, and a token sealed under
\* another key was refused without a claim.
C19_Witness ==
    /\ \E r \in Reqs : \E row \in used_tokens :
          /\ req[r].reply.kind = "Redeemed"
          /\ row.token_hash = _token_fingerprint(req[r].token)
    /\ \E r \in Reqs :
          /\ req[r].path = "photo"
          /\ req[r].update.message.photo = _make_qr_png_bytes(ForeignToken)
          /\ req[r].reply.kind = "DecryptionFailed" /\ req[r].claims = 0

\* ------------------------------------------- the allow-list, set or empty
\* The service started with ALLOWED_USERNAMES unset or naming alice.
InitAcl ==
    /\ Started
    /\ ALLOWED_USERNAMES \in {{}, {"alice"}}
    /\ call = NoCall

\* A listed sender, an unlisted one and one without user name.
Senders == {"Alice", "eve", ""}

\* Each sender types a subject or /start, or sends an image issued so far.
AclUpdates ==
    {Update(n, Chars(raw), None) :
        n \in Senders, raw \in {<<"a", "B", " ", " ", "b", "-", "a">>,
                                <<"/", "s", "t", "a", "r", "t">>}}
    \cup {Update(n, None, png) : n \in Senders, png \in IssuedImages}

NextAcl ==
    \/ \E r \in Reqs : \E u \in AclUpdates : Webhook(r, u)
    \/ \E r \in Reqs : StoreExecute(r)
    \/ \E r \in Reqs : StoreError(r)
    \/ \E r \in Reqs : MarkReturns(r)
    \/ \E r \in Reqs : MarkRaises(r)

SpecAcl == InitAcl /\ [][NextAcl]_vars

\* The sender of request r is not on a list that names alice.
Unlisted(r) == req[r].update.username \notin {"alice", "Alice"}

\* C20: with a non-empty allow-list a request of an unlisted or nameless
\* sender ends Denied without a token issued, opened or claimed, whatever it
\* sent, and every row of the table was claimed by a listed sender; with an
\* empty allow-list no request is denied.
C20_AllowListGuardsEverything ==
    /\ \A r \in Reqs : req[r].pc # "idle" =>
          IF ALLOWED_USERNAMES # {} /\ Unlisted(r)
          THEN /\ Done(r)
               /\ req[r].reply = Reply("Denied", None)
               /\ req[r].stages = <<>> /\ req[r].claims = 0
               /\ req[r].token = None /\ req[r].plain = None
          ELSE req[r].reply.kind # "Denied"
    /\ ALLOWED_USERNAMES # {} =>
          \A row \in used_tokens : \E r \in Reqs :
              /\ ~Unlisted(r) /\ req[r].claims > 0
              /\ _token_fingerprint(req[r].token) = row.token_hash

\* With alice listed, a sender without user name sent an issued image and
\* eve typed a subject, and both were denied.
C20_Witness ==
    /\ ALLOWED_USERNAMES = {"alice"}
    /\ \E q \in Issuers : \E r \in Reqs :
          /\ req[r].pc # "idle"
          /\ req[r].update.username = ""
          /\ req[r].update.message.photo = req[q].reply.data
          /\ req[r].reply.kind = "Denied"
    /\ \E r \in Reqs :
          /\ req[r].pc # "idle"
          /\ req[r].update.username = "eve"
          /\ req[r].update.message.text = Chars(<<"a", "B", " ", " ", "b", "-", "a">>)
          /\ req[r].reply.kind = "Denied"

====
